---------------------------- MODULE Spec2Model ----------------------------
(***************************************************************************)
(* Model of the alert-processing pipeline of naarad-node: the scheduler    *)
(* (CronService.processAllAlerts / processAlert), the immediate            *)
(* first-alert path of createAlert, and the notifier                       *)
(* (WatiNotificationService.sendNewsNotification) with its dispatch log.   *)
(*                                                                         *)
(* Node runs one JavaScript thread: code between two awaits is atomic.     *)
(* Every action below is the completion of one awaited operation followed  *)
(* by the synchronous code up to the next await.                           *)
(***************************************************************************)
EXTENDS Integers, Sequences, FiniteSets, TLC

(***************************************************************************)
(* Bounds of the model.                                                    *)
(***************************************************************************)
MaxAlerts == 1      \* alerts that createAlert may add
MaxWork == 2        \* alerts the passes may process in all (an empty pass is one)

(***************************************************************************)
(* Input domains.                                                          *)
(***************************************************************************)
Users == {"u1", "u2"}
Titles == {"t1", "t2"}
Descriptions == {"d1"}
Images == {"i1"}
Hashes == {"h1", "h2"}
NoHash == "nohash"          \* article_hash null / undefined
NoUser == "nouser"
NoQuery == "noquery"        \* no AlertIntent obtained yet
NoArticle == [title |-> "", description |-> "", image_url |-> "", article_hash |-> NoHash]

\* WatiConfig.TEMPLATE_NAME / BROADCAST_NAME defaults
TEMPLATE_NAME == "new_updated"
BROADCAST_NAME == "new_updated_221220250942"

\* Activations: two slots for calls of processAllAlerts (each owning the
\* processAlert it awaits) and one for the immediate first-alert path.
PassSlots == {"p1", "p2"}
ImmSlots == {"i1"}
Tasks == PassSlots \cup ImmSlots

\* Phone strings are sequences of characters.
DigitChars == {"0", "1", "2", "3", "4", "5", "6", "7", "8", "9"}
CountryCodes == {<<"+", "9", "1">>, <<"+">>}
PhoneNumbers == {<<"9", "8">>, <<"-">>}
NoUserDoc == [found |-> FALSE, country_code |-> <<>>, phone_number |-> <<>>]

\* What User.findOne({ user_id }) can return.
UserDocs ==
    {NoUserDoc} \cup
    {[found |-> TRUE, country_code |-> cc, phone_number |-> pn] :
        cc \in CountryCodes, pn \in PhoneNumbers}

VARIABLES
    env,          \* process environment: which credentials are set
    isRunning,    \* CronService.isRunning
    lastRun,      \* CronService.lastRun: 0 is null, n the end of the n-th pass
    cronJob,      \* CronService.cronJob is set (the timer is scheduled)
    runs,         \* passes started so far (the clock of lastRun)
    reply,        \* outcome of the latest call of a trigger
    pass,         \* pass[s]: the activation of processAllAlerts in slot s
    pa,           \* pa[t]: the activation of processAlert owned by task t
    alerts,       \* Alert collection, in insertion order
    intents,      \* AlertIntent collection
    dispatch,     \* WatiDispatch collection (the dispatch log), in insertion order
    call          \* the latest call of a function applied on its own, with its result

vars == <<env, isRunning, lastRun, cronJob, runs, reply, pass, pa, alerts,
          intents, dispatch, call>>

schedVars == <<isRunning, lastRun, cronJob, runs, reply, pass>>
dbVars == <<alerts, intents, dispatch>>

(***************************************************************************)
(* Records.                                                                *)
(***************************************************************************)
NoWati == [status |-> "none", reason |-> "", message_sent |-> FALSE]

NoResult == [alert_id |-> 0, user_id |-> NoUser, status |-> "none",
             reason |-> "", wati |-> NoWati]

IdleTask == [pc |-> "idle", alert_id |-> 0, user_id |-> NoUser,
             threw |-> "", fetched |-> -1, raw |-> <<>>,
             article |-> NoArticle, created |-> 0,
             stages |-> <<>>, query |-> NoQuery, curated |-> -1, items |-> <<>>,
             lookup |-> "none", user |-> NoUserDoc,
             whatsapp |-> <<>>, contentHash |-> "",
             checks |-> <<>>, wati |-> NoWati, result |-> NoResult]

IdlePass == [pc |-> "idle", id |-> 0, queue |-> <<>>,
             loaded |-> 0, processed |-> 0, skipped |-> 0, errors |-> 0,
             details |-> <<>>]

(***************************************************************************)
(* CronService.processAlert: entry and exits.                              *)
(***************************************************************************)
\* The call processAlert(alert) up to its first await, AlertIntent.findOne.
BeginAlert(alert) ==
    [IdleTask EXCEPT !.pc = "findIntent", !.alert_id = alert.alert_id,
                     !.user_id = alert.user_id, !.stages = <<"intent">>]

\* An exception is raised in `stage` of the activation.
Throw(task, stage) == [task EXCEPT !.threw = stage]

\* return { alert_id, user_id, status: "skipped", reason }
Skipped(task, reason) ==
    [task EXCEPT !.pc = "done",
                 !.result = [alert_id |-> task.alert_id, user_id |-> task.user_id,
                             status |-> "skipped", reason |-> reason,
                             wati |-> NoWati]]

\* A catch of processAlert that loses the status "error" (a deliberately
\* wrong variant, used to test the sensitivity of the properties).
ErroredWeak(task, message) ==
    [task EXCEPT !.pc = "done",
                 !.result = [alert_id |-> task.alert_id, user_id |-> task.user_id,
                             status |-> "none", reason |-> message,
                             wati |-> NoWati]]

\* the catch of processAlert: return { alert_id, user_id, status: "error", error }
Errored(task, message) ==
    [task EXCEPT !.pc = "done",
                 !.result = [alert_id |-> task.alert_id, user_id |-> task.user_id,
                             status |-> "error", reason |-> message,
                             wati |-> NoWati]]

\* return { alert_id, user_id, status: "success", ..., wati_notification }
Succeeded(task, wati) ==
    [task EXCEPT !.pc = "done", !.wati = wati,
                 !.result = [alert_id |-> task.alert_id, user_id |-> task.user_id,
                             status |-> "success", reason |-> "",
                             wati |-> wati]]

(***************************************************************************)
(* CronService.processAllAlerts and its triggers.                          *)
(***************************************************************************)
\* A grouping that keeps the alerts of the first user only (a deliberately
\* wrong variant).
GroupFirstUser(list) ==
    IF list = <<>> THEN <<>>
    ELSE SelectSeq(list, LAMBDA a : a.user_id = list[1].user_id)

\* Object.entries(alertsByUser) flattened: users in order of first
\* appearance, each user's alerts in their order.
RECURSIVE GroupByUser(_)
GroupByUser(list) ==
    IF list = <<>> THEN <<>>
    ELSE LET u == list[1].user_id
         IN SelectSeq(list, LAMBDA a : a.user_id = u)
              \o GroupByUser(SelectSeq(list, LAMBDA a : a.user_id # u))

\* Alert.find({ is_active: true })
ActiveAlerts == SelectSeq(alerts, LAMBDA a : a.is_active)

FreeSlots == {s \in PassSlots : pass[s].pc = "idle" /\ pa[s].pc = "idle"}

\* A guard that never skips (a deliberately wrong variant).
GuardNever == FALSE

\* if (this.isRunning) return;

AlreadyRunning == isRunning

\* The alerts the passes started so far and one more process, when each
\* loads the alerts that are active now.
Work == (runs + 1) * (IF ActiveAlerts = <<>> THEN 1 ELSE Len(ActiveAlerts))

\* One call of processAllAlerts up to its first await.
ProcessAllAlerts ==
    IF AlreadyRunning
    THEN /\ reply' = "skipped"
         /\ UNCHANGED <<isRunning, lastRun, runs, pass, pa>>
    ELSE /\ Work <= MaxWork
         /\ FreeSlots # {}
         /\ LET s == IF "p1" \in FreeSlots THEN "p1" ELSE "p2"
            IN pass' = [pass EXCEPT ![s] = [IdlePass EXCEPT !.pc = "load",
                                                          !.id = runs + 1]]
         /\ isRunning' = TRUE
         /\ runs' = runs + 1
         /\ reply' = "started"
         /\ UNCHANGED <<lastRun, pa>>

\* CronService.start(): the initial run, then the timer is scheduled.
Start ==
    /\ ~cronJob
    /\ ProcessAllAlerts
    /\ cronJob' = TRUE
    /\ UNCHANGED <<env, call, dbVars>>

\* The callback of cron.schedule.
TimerTick ==
    /\ cronJob
    /\ ProcessAllAlerts
    /\ UNCHANGED <<env, call, cronJob, dbVars>>

\* cronController.triggerCronJob: POST /cron/trigger
TriggerCronJob ==
    /\ IF isRunning
       THEN /\ reply' = "conflict"
            /\ UNCHANGED <<isRunning, lastRun, runs, pass, pa>>
       ELSE ProcessAllAlerts
    /\ UNCHANGED <<env, call, cronJob, dbVars>>

\* An exit that forgets to clear the flag (a deliberately wrong variant).
FinishPassStuck(s) ==
    /\ lastRun' = pass[s].id
    /\ UNCHANGED isRunning
    /\ pass' = [pass EXCEPT ![s] = IdlePass]

\* A pass leaves: this.isRunning = false; this.lastRun = new Date().
FinishPass(s) ==
    /\ isRunning' = FALSE
    /\ lastRun' = pass[s].id
    /\ pass' = [pass EXCEPT ![s] = IdlePass]

\* Alert.find(...).lean() returns, or throws into the catch of the pass.
LoadAlerts(s) ==
    /\ pass[s].pc = "load"
    /\ \/ \* the load throws: the fatal exit
          /\ FinishPass(s)
          /\ UNCHANGED pa
       \/ \* no active alerts: the early exit
          /\ ActiveAlerts = <<>>
          /\ FinishPass(s)
          /\ UNCHANGED pa
       \/ /\ ActiveAlerts # <<>>
          /\ LET q == GroupByUser(ActiveAlerts)
             IN /\ pass' = [pass EXCEPT ![s].pc = "alert",
                                        ![s].queue = Tail(q),
                                        ![s].loaded = Len(q)]
                /\ pa' = [pa EXCEPT ![s] = BeginAlert(q[1])]
          /\ UNCHANGED <<isRunning, lastRun>>
    /\ UNCHANGED <<env, call, cronJob, runs, reply, dbVars>>

\* `await this.processAlert(alert)` returns: the result is counted and
\* pushed, and the pass waits for the 2 s delay.
AlertDone(s) ==
    /\ pass[s].pc = "alert"
    /\ pa[s].pc = "done"
    /\ LET r == pa[s].result
       IN pass' = [pass EXCEPT
               ![s].pc = "delay",
               ![s].processed = @ + (IF r.status = "success" THEN 1 ELSE 0),
               ![s].skipped = @ + (IF r.status = "skipped" THEN 1 ELSE 0),
               ![s].errors = @ + (IF r.status \notin {"success", "skipped"} THEN 1 ELSE 0),
               ![s].details = Append(@, [alert_id |-> r.alert_id,
                                         status |-> r.status])]
    /\ pa' = [pa EXCEPT ![s] = IdleTask]
    /\ UNCHANGED <<env, call, isRunning, lastRun, cronJob, runs, reply, dbVars>>

\* The delay elapses: the next alert of the loop, or the normal exit.
DelayDone(s) ==
    /\ pass[s].pc = "delay"
    /\ IF pass[s].queue # <<>>
       THEN /\ pass' = [pass EXCEPT ![s].pc = "alert", ![s].queue = Tail(@)]
            /\ pa' = [pa EXCEPT ![s] = BeginAlert(pass[s].queue[1])]
            /\ UNCHANGED <<isRunning, lastRun>>
       ELSE /\ FinishPass(s)
            /\ UNCHANGED pa
    /\ UNCHANGED <<env, call, cronJob, runs, reply, dbVars>>

(***************************************************************************)
(* alertController.createAlert and its immediate first-alert path.         *)
(***************************************************************************)
FreeImm == {t \in ImmSlots : pa[t].pc = "idle"}

\* POST /alerts: the alert is saved active; the first alert of a user is
\* handed to processAlert by setImmediate, outside any pass.
CreateAlert(u) ==
    /\ Len(alerts) < MaxAlerts
    /\ LET a == [alert_id |-> Len(alerts) + 1, user_id |-> u, is_active |-> TRUE]
           isFirstAlert == \A i \in 1..Len(alerts) : alerts[i].user_id # u
       IN /\ alerts' = Append(alerts, a)
          /\ IF isFirstAlert
             THEN /\ FreeImm # {}
                  /\ LET t == CHOOSE x \in FreeImm : TRUE
                     IN pa' = [pa EXCEPT ![t] = BeginAlert(a)]
             ELSE UNCHANGED pa
    /\ UNCHANGED <<env, call, schedVars, intents, dispatch>>

\* The setImmediate callback logs the result and ends.
ImmediateDone(t) ==
    /\ t \in ImmSlots
    /\ pa[t].pc = "done"
    /\ pa' = [pa EXCEPT ![t] = IdleTask]
    /\ UNCHANGED <<env, call, schedVars, dbVars>>


(***************************************************************************)
(* Collaborators' answers.                                                 *)
(***************************************************************************)
\* PerplexityNewsFetcher.fetchNews: the articles, each with its article_hash
\* (the code returns at most four; here none or one).
RawLists == {<<>>} \cup {<<h>> : h \in Hashes}

\* ArticleFormatter(3)
maxArticles == 3

\* Array.prototype.slice(0, n)
Take(s, n) == SubSeq(s, 1, IF Len(s) < n THEN Len(s) ELSE n)

\* What the rewrite of one raw article can be: a title, a description, the
\* image found for it, and the article_hash of the raw article.
Rewrites(h) ==
    {[title |-> t, description |-> d, image_url |-> i, article_hash |-> h] :
        t \in Titles, d \in Descriptions, i \in Images}

\* formatArticles, stage 1: each article is skipped (empty after cleaning)
\* or rewritten and pushed.
RECURSIVE Stage1(_)
Stage1(raw) ==
    IF raw = <<>> THEN {<<>>}
    ELSE LET rest == Stage1(Tail(raw))
         IN rest \cup {<<f>> \o r : f \in Rewrites(raw[1]), r \in rest}

\* The items the gatekeeping collaborator may put in its JSON array: any
\* title and description, possibly missing, and no image or hash of its own.
EchoItems ==
    {[title |-> t, description |-> d, image_url |-> "", article_hash |-> NoHash] :
        t \in Titles \cup {""}, d \in Descriptions \cup {""}}

\* An item the gatekeeping collaborator may add after the ones it was given.
SecondItems ==
    {[title |-> "t2", description |-> "d1", image_url |-> "",
      article_hash |-> NoHash]}

\* _gatekeepArticles: the parsed array as it is (nothing, one item, or the
\* articles followed by one more item), or every article when the call
\* throws or the text is empty or no JSON.
GatekeepArticles(formatted) ==
    {formatted} \cup {<<>>} \cup {<<e>> : e \in EchoItems}
        \cup {formatted \o <<e>> : e \in SecondItems}

\* formatArticles, after gatekeeping: image and article_hash are taken from
\* the first rewritten article with the same title.
Reattach(item, formatted) ==
    LET same == {i \in 1..Len(formatted) : formatted[i].title = item.title}
    IN IF same = {} THEN item
       ELSE LET o == formatted[CHOOSE i \in same : \A j \in same : i <= j]
            IN [item EXCEPT
                   !.image_url = IF o.image_url # "" THEN o.image_url ELSE @,
                   !.article_hash = IF o.article_hash # NoHash
                                    THEN o.article_hash ELSE @]

\* ArticleFormatter.formatArticles: every list it can return for `raw` when
\* nothing inside it throws.
FormatArticles(raw) ==
    IF raw = <<>> THEN {<<>>}
    ELSE UNION {
           IF formatted = <<>> THEN {<<>>}
           ELSE {[i \in 1..Len(final) |-> Reattach(final[i], formatted)] :
                    final \in GatekeepArticles(formatted)}
           : formatted \in Stage1(Take(raw, maxArticles))}

(***************************************************************************)
(* ArticleFormatter: the rating stage.                                     *)
(***************************************************************************)
\* constructor: minRatingThreshold = 7
minRatingThreshold == 7

\* The thresholds a formatter is built with.
Thresholds == {minRatingThreshold - 1, minRatingThreshold, minRatingThreshold + 1}

\* Answers of the rating collaborator: the call throws, the text is empty,
\* the text is no JSON, the JSON is no object, or it is an object whose
\* rating is a number (0..10) or is missing or no number.
RatingAnswers ==
    {[kind |-> k, numeric |-> FALSE, rating |-> 0] :
        k \in {"throws", "empty", "unparsable", "notObject", "json"}}
    \cup {[kind |-> "json", numeric |-> TRUE, rating |-> r] : r \in 0..10}

\* A comparison that excludes the threshold itself (a deliberately wrong
\* variant).
ExceedsThreshold(rating, threshold) == rating > threshold

\* rating >= this.minRatingThreshold
MeetsThreshold(rating, threshold) == rating >= threshold

FailOpen(why) == [rating |-> 10, reason |-> why, shouldProceed |-> TRUE]

\* _rateArticleBeforeFormatting
RateArticleBeforeFormatting(emptyText, hasIntent, answer, threshold) ==
    IF emptyText
    THEN [rating |-> 0, reason |-> "Empty article text", shouldProceed |-> FALSE]
    ELSE IF ~hasIntent THEN FailOpen("No intent to compare against")
    ELSE IF answer.kind = "throws" THEN FailOpen("Rating service error")
    ELSE IF answer.kind = "empty" THEN FailOpen("Rating service unavailable")
    ELSE IF answer.kind \in {"unparsable", "notObject"}
    THEN FailOpen("Rating parse error")
    ELSE LET rating == IF answer.numeric THEN answer.rating ELSE 0
         IN [rating |-> rating, reason |-> "parsed",
             shouldProceed |-> MeetsThreshold(rating, threshold)]

\* The userIntent objects formatArticles is called with: the one processAlert
\* builds (topic, category, intent_summary, subcategory, followup_questions,
\* timeframe: no alertIntent, alert_id or user_id), and one that carries
\* all three, as the parameter allows.
UserIntentForFormatting ==
    [caller |-> "processAlert", alertIntent |-> FALSE,
     alert_id |-> FALSE, user_id |-> FALSE]
UserIntents ==
    {UserIntentForFormatting,
     [caller |-> "other", alertIntent |-> TRUE, alert_id |-> TRUE,
      user_id |-> TRUE]}

\* formatArticles, stage 1, lines 1081-1115 for one cleaned article: the
\* rating is asked for only when rating is enabled and the userIntent has
\* an alertIntent; the article is rewritten unless a rating that was asked
\* for says not to proceed.
RatingGate(enableRating, userIntent, answer, threshold) ==
    IF enableRating /\ userIntent.alertIntent
    THEN [rated |-> TRUE,
          rewritten |-> RateArticleBeforeFormatting(FALSE, TRUE, answer,
                                                    threshold).shouldProceed]
    ELSE [rated |-> FALSE, rewritten |-> TRUE]

(***************************************************************************)
(* ArticleFormatter: the rewrite stage.  Texts are sequences of            *)
(* characters.                                                             *)
(***************************************************************************)
Chars == {"a", " ", ".", "?"}
Terminators == {".", "?"}

\* n copies of s.
Rep(s, n) == [i \in 1..(n * Len(s)) |-> s[((i - 1) % Len(s)) + 1]]

\* String.prototype.trim
Trim(s) ==
    LET kept == {i \in 1..Len(s) : s[i] # " "}
    IN  IF kept = {} THEN <<>>
        ELSE SubSeq(s, CHOOSE i \in kept : \A j \in kept : i <= j,
                       CHOOSE i \in kept : \A j \in kept : j <= i)

\* String.prototype.substring(0, n)
Substring(s, n) == SubSeq(s, 1, IF n < Len(s) THEN n ELSE Len(s))

\* articleText.split(/[.!?]+/): the pieces between the runs of terminators,
\* in order.  The empty pieces split() gives at the two ends of the text are
\* left out: the filter that follows drops them.
Split(s) ==
    LET starts == {i \in 1..Len(s) :
                      s[i] \notin Terminators /\ (i = 1 \/ s[i - 1] \in Terminators)}
        EndOf(i) == CHOOSE j \in i..Len(s) :
                       /\ \A k \in i..j : s[k] \notin Terminators
                       /\ (j = Len(s) \/ s[j + 1] \in Terminators)
        Nth(k) == CHOOSE i \in starts : Cardinality({j \in starts : j < i}) = k - 1
    IN  [k \in 1..Cardinality(starts) |-> SubSeq(s, Nth(k), EndOf(Nth(k)))]

RECURSIVE TrimAll(_)
TrimAll(pieces) ==
    IF pieces = <<>> THEN <<>>
    ELSE <<Trim(Head(pieces))>> \o TrimAll(Tail(pieces))

RECURSIVE Join(_)
Join(pieces) ==
    IF pieces = <<>> THEN <<>>
    ELSE IF Len(pieces) = 1 THEN Head(pieces)
    ELSE Head(pieces) \o <<" ">> \o Join(Tail(pieces))

NewsUpdate == <<"N", "e", "w", "s", " ", "U", "p", "d", "a", "t", "e">>
LatestNews ==
    <<"L", "a", "t", "e", "s", "t", " ", "n", "e", "w", "s", " ", "u", "p",
      "d", "a", "t", "e", " ", "a", "v", "a", "i", "l", "a", "b", "l", "e", ".">>

FallbackTitleChars == 80
FallbackSentences == 3
FallbackDescriptionChars == 200

\* _fallback, with a fault for the mutant: the description is not replaced
\* when it comes out empty.
FallbackBare(articleText) ==
    LET sentences == SelectSeq(TrimAll(Split(articleText)),
                               LAMBDA s : Len(s) > 0)
    IN  [title |-> IF sentences # <<>>
                   THEN Trim(Substring(Head(sentences), FallbackTitleChars))
                   ELSE NewsUpdate,
         description |-> Trim(Substring(Join(Take(sentences, FallbackSentences)),
                                        FallbackDescriptionChars))]

\* _fallback: the first sentence as the title and the first three as the
\* description, each cut to its length and replaced by a fixed text when
\* there is none.
Fallback(articleText) ==
    IF articleText = <<>> THEN [title |-> NewsUpdate, description |-> LatestNews]
    ELSE LET sentences == SelectSeq(TrimAll(Split(articleText)),
                                    LAMBDA s : Len(s) > 0)
             description == Trim(Substring(Join(Take(sentences, FallbackSentences)),
                                           FallbackDescriptionChars))
         IN  [title |-> IF sentences # <<>>
                        THEN Trim(Substring(Head(sentences), FallbackTitleChars))
                        ELSE NewsUpdate,
              description |-> IF description # <<>> THEN description
                              ELSE LatestNews]

\* Texts as they reach the generation call: formatArticles has cleaned them
\* (_cleanArticleText: no run of dots, single spaces, trimmed) and has
\* skipped the empty ones.
MaxText == 3
ShortTexts == UNION {[1..n -> Chars] : n \in 1..MaxText}
LongTexts ==
    { Rep(<<"a">>, FallbackTitleChars + 1),
      Rep(<<"a", " ">>, FallbackTitleChars),
      Rep(<<"a">>, FallbackDescriptionChars - 1) \o <<".", "a">>,
      Rep(<<"a">>, FallbackDescriptionChars) \o <<"?", "a", ".", "a", ".", "a">> }
Cleaned(s) ==
    /\ s # <<>>
    /\ Trim(s) = s
    /\ \A i \in 1..(Len(s) - 1) :
          /\ ~(s[i] = " " /\ s[i + 1] = " ")
          /\ ~(s[i] = "." /\ s[i + 1] = ".")
ArticleTexts == {s \in ShortTexts \cup LongTexts : Cleaned(s)}

\* What the generation collaborator can do with one prompt.  A text answer
\* carries the title and the description the parser extracts from it (its
\* JSON keys or its TITLE:/DESCRIPTION: lines), "" for a part it does not
\* find; "nonString" is JSON whose title is a truthy non-string.
GeneratedTitles == {<<>>, <<" ">>, <<"a">>, <<" ", "a">>}
GeneratedDescriptions == {<<>>, <<"a", " ">>}
GenerationAnswers ==
    {[kind |-> k, title |-> <<>>, description |-> <<>>] :
        k \in {"throws", "blocked", "empty", "unparsable", "nonString"}}
    \cup {[kind |-> "text", title |-> t, description |-> d] :
             t \in GeneratedTitles, d \in GeneratedDescriptions}

\* _generateWithGemini
GenerateWithGemini(articleText, answer) ==
    IF answer.kind # "text" THEN Fallback(articleText)
    ELSE LET title == Trim(answer.title)
             description == Trim(answer.description)
         IN  IF title = <<>> \/ description = <<>> THEN Fallback(articleText)
             ELSE [title |-> title, description |-> description]

\* formatArticles, stage 1, for one article that reaches the generation
\* call: the rewritten item with the hash of the source article attached.
TextHashes == Hashes \cup {NoHash}
RewriteOne(articleText, articleHash, answer) ==
    LET formatted == GenerateWithGemini(articleText, answer)
    IN  IF formatted.title # <<>> /\ formatted.description # <<>>
        THEN <<[title |-> formatted.title,
                description |-> formatted.description,
                article_hash |-> articleHash,
                original_content |-> articleText]>>
        ELSE <<>>

(***************************************************************************)
(* ArticleFormatter: the gatekeeping stage as a function of the answer.    *)
(***************************************************************************)
FormattedItems == {[title |-> t, description |-> "d1"] : t \in Titles}
FormattedLists ==
    {<<a>> : a \in FormattedItems}
    \cup {<<a, b>> : a \in FormattedItems, b \in FormattedItems}

DefaultReason == "Article passed gatekeeping"
Selected(item) == [title |-> item.title, description |-> item.description,
                   gatekeeper_reason |-> "selected"]

\* An item of the collaborator's own making, not among the ones it was given.
Invented == [title |-> "t0", description |-> "d0",
             gatekeeper_reason |-> "selected"]

\* What the gatekeeping collaborator can do with one prompt: throw, answer
\* with no text, with text that is not JSON, or with JSON: null, an array
\* (no item, the first item, every item, an item of its own, or the first
\* item more often than the curator's cap), an object with a title and a
\* description, any other object, or a number, string or boolean.
GatekeepAnswers(formattedArticles) ==
    {[kind |-> k, items |-> <<>>] :
        k \in {"throws", "empty", "unparsable", "null", "otherObject", "scalar"}}
    \cup {[kind |-> "array", items |-> items] :
             items \in {<<>>, <<Selected(formattedArticles[1])>>,
                        [i \in DOMAIN formattedArticles |->
                            Selected(formattedArticles[i])],
                        <<Invented>>,
                        [i \in 1..(maxArticles + 1) |->
                            Selected(formattedArticles[1])]}}
    \cup {[kind |-> "object", items |-> <<Selected(formattedArticles[1])>>]}

\* formattedArticles.map(article => ({...article, gatekeeper_reason}))
PassThrough(formattedArticles) ==
    [i \in DOMAIN formattedArticles |->
        [title |-> formattedArticles[i].title,
         description |-> formattedArticles[i].description,
         gatekeeper_reason |-> DefaultReason]]

\* _gatekeepArticles for one answer of the collaborator.
GatekeepWith(formattedArticles, answer) ==
    IF Len(formattedArticles) = 0 THEN <<>>
    ELSE CASE answer.kind \in {"throws", "empty", "unparsable", "null"} ->
                  PassThrough(formattedArticles)
           [] answer.kind \in {"array", "object"} -> answer.items
           [] OTHER -> <<>>

(***************************************************************************)
(* LLMIntentParser: parseIntent as a function of the collaborator's        *)
(* answer.  Texts are sequences of words, the empty text is <<>>.          *)
(***************************************************************************)
urgencyKeywords ==
    {"only", "win", "won", "result", "score", "breaking", "live", "today", "now"}
Words == {"news", "live"}
Texts == {<<>>} \cup {<<w>> : w \in Words}

\* A field of a JSON object: absent (undefined or null), of a type the code
\* does not expect (a number where it reads a string or an array), a string
\* or an array of strings.
Absent == [is |-> "absent"]
WrongType == [is |-> "wrongType"]
Str(t) == [is |-> "string", text |-> t]
Arr(l) == [is |-> "array", list |-> l]

\* The alertData the callers build from an alert: custom_question is a
\* string ("" when the alert has none) and followup_questions is an array.
AlertDatas ==
    {[custom_question |-> Str(t), followup_questions |-> Arr(l)] :
        t \in Texts, l \in {<<>>} \cup {<<u>> : u \in Texts}}

valid == {"24hours", "3days", "1week", "1month"}

\* followup_questions.join(" ")
RECURSIVE JoinTexts(_)
JoinTexts(list) ==
    IF list = <<>> THEN <<>> ELSE Head(list) \o JoinTexts(Tail(list))

\* _detectUrgency
DetectUrgency(text) ==
    text # <<>> /\ \E i \in 1..Len(text) : text[i] \in urgencyKeywords

Flag(b) == IF b THEN "true" ELSE "false"

\* _fallbackParse, the fields of the intent that depend on urgency.
FallbackParse(alertData) ==
    LET requiresLiveData ==
            DetectUrgency(IF alertData.custom_question.text # <<>>
                          THEN alertData.custom_question.text
                          ELSE JoinTexts(alertData.followup_questions.list))
    IN  [timeframe |-> IF requiresLiveData THEN "24hours" ELSE "3days",
         requires_live_data |-> Flag(requiresLiveData),
         custom_question |-> alertData.custom_question,
         followup_questions |-> alertData.followup_questions]

\* The JSON values the collaborator can answer with: null, a number (or
\* another primitive), or an object.  requires_live_data is "true", "false",
\* "absent", or "truthy" for a non-boolean such as the string "no".
ParsedObjects ==
    [kind : {"object"},
     timeframe : valid \cup {"bogus", "absent"},
     requires_live_data : {"true", "false", "truthy", "absent"},
     custom_question : {Absent, WrongType} \cup {Str(t) : t \in Texts},
     followup_questions : {Absent, WrongType, Str(<<"live">>),
                           Arr(<<>>), Arr(<<(<<"live">>)>>)}]
NoFields == [timeframe |-> "absent", requires_live_data |-> "absent",
             custom_question |-> Absent, followup_questions |-> Absent]
IntentAnswers ==
    {[kind |-> k] @@ NoFields :
        k \in {"throws", "empty", "unparsable", "null", "scalar"}}
    \cup ParsedObjects

\* The mutant of CoerceTimeframe: the timeframe is kept as it came.
KeepTimeframe(timeframe) == timeframe

\* if (!valid.includes(intent.timeframe)) intent.timeframe = "3days"
CoerceTimeframe(timeframe) ==
    IF timeframe \in valid THEN timeframe ELSE "3days"

Threw == [threw |-> TRUE]
Returned(intent) == [threw |-> FALSE, intent |-> intent]

\* _normalizeIntent on a parsed object; the perplexity_query part, which
\* cannot throw and does not touch the timeframe, is left out.  Calling
\* join or toLowerCase on a number throws a TypeError.
NormalizeIntent(intent) ==
    LET followups == IF intent.followup_questions.is = "string"
                     THEN Arr(<<intent.followup_questions.text>>)
                     ELSE intent.followup_questions
        detect == intent.requires_live_data = "absent"
        fromQuestion == \/ intent.custom_question.is = "wrongType"
                        \/ /\ intent.custom_question.is = "string"
                           /\ intent.custom_question.text # <<>>
        throws == detect /\ \/ intent.custom_question.is = "wrongType"
                            \/ ~fromQuestion /\ followups.is = "wrongType"
        urgency == IF fromQuestion THEN intent.custom_question.text
                   ELSE IF followups.is = "array" THEN JoinTexts(followups.list)
                   ELSE <<>>
        live == IF detect THEN DetectUrgency(urgency)
                ELSE intent.requires_live_data # "false"
    IN  IF throws THEN Threw
        ELSE Returned(
                [timeframe |-> IF live THEN "24hours"
                               ELSE CoerceTimeframe(intent.timeframe),
                 requires_live_data |-> IF detect THEN Flag(live)
                                        ELSE intent.requires_live_data,
                 custom_question |-> intent.custom_question,
                 followup_questions |-> followups])

\* The mutant of CatchAll: the exception leaves parseIntent.
NoCatch(result, alertData) == result

\* catch (e) { return this._fallbackParse(alertData) }
CatchAll(result, alertData) ==
    IF result.threw THEN Returned(FallbackParse(alertData)) ELSE result

\* parseIntent
ParseIntent(alertData, answer) ==
    CatchAll(CASE answer.kind = "throws" -> Threw
               [] answer.kind = "empty" -> Returned(FallbackParse(alertData))
               [] answer.kind = "unparsable" -> Threw
               [] answer.kind \in {"null", "scalar"} -> Threw
               [] OTHER -> NormalizeIntent(answer),
             alertData)

(***************************************************************************)
(* ArticleFormatter: the Article archive.                                  *)
(***************************************************************************)
\* The curated items as the archive step sees them: the article_hash and
\* whether the original_content is attached.
ArchiveItems == [article_hash : Hashes \cup {NoHash}, original_content : BOOLEAN]
ArchiveLists ==
    {<<a>> : a \in ArchiveItems}
    \cup {<<a, b>> : a \in ArchiveItems, b \in ArchiveItems}

\* The alert the curation runs for, and the Article collection before it: a
\* set of keys (alert_id, article_hash); the unique index on the key and the
\* upsert keep one document per key.
ArchiveAlert == 1
Archives == {{}, {<<ArchiveAlert, "h1">>}}

\* if (!alert_id || !user_id) return
HasIds(userIntent) == userIntent.alert_id /\ userIntent.user_id

\* _storeArticlesInDatabase: one upsert for each item that has a hash and
\* its content; `failing` are the positions whose upsert throws, which the
\* inner catch swallows.
StoreArticlesInDatabase(archive, articles, userIntent, failing) ==
    IF ~HasIds(userIntent) THEN archive
    ELSE archive \cup
         {<<ArchiveAlert, articles[i].article_hash>> :
             i \in {j \in DOMAIN articles :
                       /\ articles[j].article_hash # NoHash
                       /\ articles[j].original_content
                       /\ j \notin failing}}

\* formatArticles, lines 1183-1188: the archive step runs when the
\* userIntent has an alert_id or a user_id; the curated list is returned
\* whatever the step did.
ArchiveAndReturn(archive, articles, userIntent, failing) ==
    [archive |-> IF userIntent.alert_id \/ userIntent.user_id
                 THEN StoreArticlesInDatabase(archive, articles, userIntent,
                                              failing)
                 ELSE archive,
     returned |-> articles,
     threw |-> FALSE]

(***************************************************************************)
(* CronService.processAlert: intent, retrieval, curation.                  *)
(***************************************************************************)
IntentsOf(a, u) == {x \in intents : x.alert_id = a /\ x.user_id = u}

\* The mutant of Primary: the last curated item is the one sent.
LastItem(formatted) == formatted[Len(formatted)]

\* const primaryArticle = formattedArticles[0]
Primary(formatted) == formatted[1]

\* sendNewsNotification up to its first await: the configuration check,
\* then User.findOne (processAlert passes phone: null).
CallNotifier(task, formatted) ==
    LET t1 == [task EXCEPT !.article = Primary(formatted),
                           !.stages = Append(@, "notification")]
    IN IF ~env.WATI_ACCESS_TOKEN
       THEN Succeeded(t1, [status |-> "skipped", reason |-> "missing_config",
                           message_sent |-> FALSE])
       ELSE [t1 EXCEPT !.pc = "n_user"]

\* A query gate that lets every intent through (a deliberately wrong variant).
QueryNeverMissing(intent) == FALSE

\* if (!alertIntent.perplexity_query)
MissingQuery(intent) == intent.perplexity_query = ""

\* processAlert lines 806-846: the query gate, then the retriever is built
\* and fetchNews is called.
AfterIntent(task, intent) ==
    LET got == [task EXCEPT !.query = intent.perplexity_query]
    IN  IF MissingQuery(intent)
        THEN Skipped(got, "missing_perplexity_query")
        ELSE IF ~env.PERPLEXITY_API_KEY
        THEN Errored(Throw(got, "retriever"),
                     "PERPLEXITY_API_KEY missing from environment")
        ELSE [got EXCEPT !.pc = "fetch", !.stages = Append(@, "retrieval")]

\* AlertIntent.findOne returns or throws.
FindIntent(t) ==
    /\ pa[t].pc = "findIntent"
    /\ LET task == pa[t]
           found == IntentsOf(task.alert_id, task.user_id)
       IN \/ pa' = [pa EXCEPT ![t] =
                      Errored(Throw(task, "intent"), "intent lookup failed")]
          \/ /\ found = {}
             /\ pa' = [pa EXCEPT ![t].pc = "parseIntent"]
          \/ \E x \in found : pa' = [pa EXCEPT ![t] = AfterIntent(task, x)]
    /\ UNCHANGED <<env, call, schedVars, dbVars>>

\* parseAndStoreAlert returns the upserted AlertIntent, or throws.  The
\* upsert replaces the fields of a document that is already there; `writes`
\* counts how many times the document was written.
ParseAndStoreAlert(t) ==
    /\ pa[t].pc = "parseIntent"
    /\ LET task == pa[t]
           stored == IntentsOf(task.alert_id, task.user_id)
           x == [alert_id |-> task.alert_id, user_id |-> task.user_id,
                 perplexity_query |-> "q1",
                 writes |-> IF stored = {} THEN 1
                            ELSE 1 + (CHOOSE y \in stored : TRUE).writes]
       IN \/ /\ pa' = [pa EXCEPT ![t] =
                         Errored(Throw(task, "intent"), "parse and store failed")]
             /\ UNCHANGED intents
          \/ /\ env.GEMINI_API_KEY
             /\ intents' = (intents \ IntentsOf(task.alert_id, task.user_id)) \cup {x}
             /\ pa' = [pa EXCEPT ![t] = AfterIntent(task, x)]
    /\ UNCHANGED <<env, call, schedVars, alerts, dispatch>>

\* A gate that lets an empty list through (a deliberately wrong variant).
NeverEmpty(articles) == FALSE

\* if (rawArticles.length === 0)
NoArticles(articles) == Len(articles) = 0

\* fetchNews returns or throws; then the no-articles gate and the
\* construction of the formatter.
FetchNews(t) ==
    /\ pa[t].pc = "fetch"
    /\ LET task == pa[t]
       IN \/ pa' = [pa EXCEPT ![t] =
                       Errored(Throw(task, "retrieval"),
                               "Failed to fetch news from Perplexity")]
          \/ \E raw \in RawLists :
                LET got == [task EXCEPT !.fetched = Len(raw)]
                IN pa' = [pa EXCEPT ![t] =
                    IF NoArticles(raw) THEN Skipped(got, "no_articles_found")
                    ELSE IF ~env.GEMINI_API_KEY
                    THEN Errored(Throw(got, "formatter"),
                                 "GEMINI_API_KEY is not set in environment variables")
                    ELSE [got EXCEPT !.pc = "format", !.raw = raw,
                                     !.stages = Append(@, "curation")]]
    /\ UNCHANGED <<env, call, schedVars, dbVars>>

\* formatArticles returns (an exception inside it is caught and [] is
\* returned); then the no-formatted-articles gate and the call of
\* sendWatiNotification for the first item.
FormatStep(t) ==
    /\ pa[t].pc = "format"
    /\ LET task == [pa[t] EXCEPT !.raw = <<>>]
       IN \/ pa' = [pa EXCEPT ![t] =
                    Skipped(Throw([task EXCEPT !.curated = 0], "curation"),
                            "no_formatted_articles")]
          \/ \E formatted \in FormatArticles(pa[t].raw) :
                LET got == [task EXCEPT !.curated = Len(formatted),
                                        !.items = formatted]
                IN pa' = [pa EXCEPT ![t] =
                    IF formatted = <<>>
                    THEN Skipped(got, "no_formatted_articles")
                    ELSE CallNotifier(got, formatted)]
    /\ UNCHANGED <<env, call, schedVars, dbVars>>


(***************************************************************************)
(* WatiNotificationService: helpers.                                       *)
(***************************************************************************)
\* String.prototype.replace(/\D/g, "")
Digits(str) == SelectSeq(str, LAMBDA c : c \in DigitChars)

\* The mutant of NormalizePhone: a part without digits is tolerated.
NormalizeLoose(countryCode, phoneNumber) ==
    Digits(countryCode) \o Digits(phoneNumber)

\* normalizePhone: the digits of both parts joined, or null (here <<>>)
\* when either part has none.
NormalizePhone(countryCode, phoneNumber) ==
    LET ccDigits == Digits(countryCode)
        pnDigits == Digits(phoneNumber)
    IN IF ccDigits = <<>> \/ pnDigits = <<>> THEN <<>>
       ELSE ccDigits \o pnDigits

\* computeContentHash: SHA-256 of the fingerprint; the digest is modelled by
\* the fingerprint itself (no collisions).
ComputeContentHash(imageUrl, title, description, templateName, broadcastName) ==
    imageUrl \o "|" \o title \o "|" \o description \o "|" \o templateName
        \o "|" \o broadcastName

\* The document sendNewsNotification hands to WatiDispatch.create.
DispatchDoc(task, contentHash, sent, reason) ==
    [user_id |-> task.user_id, alert_id |-> task.alert_id,
     content_hash |-> contentHash,
     article_hash |-> task.article.article_hash,
     template_name |-> TEMPLATE_NAME, broadcast_name |-> BROADCAST_NAME,
     title |-> task.article.title, description |-> task.article.description,
     image_url |-> task.article.image_url,
     message_sent |-> sent, reason |-> reason]

\* An error document that carries the hashes of the candidate (a
\* deliberately wrong variant).
ErrorDocHashed(task) ==
    DispatchDoc(task,
        ComputeContentHash(task.article.image_url, task.article.title,
            task.article.description, TEMPLATE_NAME, BROADCAST_NAME),
        FALSE, "error")

\* The error document of the catch: content_hash "" and no article_hash.
ErrorDoc(task) ==
    [DispatchDoc(task, "", FALSE, "error") EXCEPT !.article_hash = NoHash]

\* watiDispatchSchema: the required String paths reject the empty string.
Validates(doc) ==
    /\ doc.user_id # ""
    /\ doc.content_hash # ""
    /\ doc.template_name # ""
    /\ doc.broadcast_name # ""
    /\ doc.title # ""
    /\ doc.description # ""

\* WatiDispatch.create(doc) returns: the document is inserted, or the call
\* throws (validation, or the store fails) and nothing is inserted.
Create(doc, inserted) ==
    /\ inserted \in BOOLEAN
    /\ inserted => Validates(doc)
    /\ dispatch' = IF inserted THEN Append(dispatch, doc) ELSE dispatch

\* The activation's count of the records it inserted.
Logged(task, inserted) ==
    [task EXCEPT !.created = @ + (IF inserted THEN 1 ELSE 0)]

\* A chain that goes on after a match (a deliberately wrong variant).
FallThrough(match, logPc, nextPc) == nextPc

\* if (duplicate) { ...log...; return skipped } -- else the next check.
ShortCircuit(match, logPc, nextPc) == IF match THEN logPc ELSE nextPc

\* A rejection record that claims the message was sent (a deliberately
\* wrong variant).
RejectedDocSent(task, reason) ==
    DispatchDoc(task, task.contentHash, TRUE, reason)

\* A success record that says nothing was sent (a deliberately wrong
\* variant).
SuccessDocUnsent(task) ==
    DispatchDoc(task, task.contentHash, FALSE, "error")

\* The document of a successful send: message_sent true, reason "success".
SuccessDoc(task) ==
    DispatchDoc(task, task.contentHash, TRUE, "success")

\* The document of a rejected send: message_sent false and the reason.
RejectedDoc(task, reason) ==
    DispatchDoc(task, task.contentHash, FALSE, reason)

\* A lookup that never finds a record (a deliberately wrong variant).
IsDuplicateNever(userId, templateName, contentHash) == FALSE

\* isDuplicate: a record of the user and template with this content_hash.
IsDuplicate(userId, templateName, contentHash) ==
    \E i \in 1..Len(dispatch) :
        /\ dispatch[i].user_id = userId
        /\ dispatch[i].template_name = templateName
        /\ dispatch[i].content_hash = contentHash

\* isDuplicateByArticle: false without article_hash, else a record of the
\* user and template with this article_hash.
IsDuplicateByArticle(userId, templateName, articleHash) ==
    /\ articleHash # NoHash
    /\ \E i \in 1..Len(dispatch) :
        /\ dispatch[i].user_id = userId
        /\ dispatch[i].template_name = templateName
        /\ dispatch[i].article_hash = articleHash

\* isSimilarByGemini: the successful records of the user and template (the
\* lookback window may or may not hold them).
RecentSuccess(userId, templateName) ==
    {i \in 1..Len(dispatch) :
        /\ dispatch[i].user_id = userId
        /\ dispatch[i].template_name = templateName
        /\ dispatch[i].message_sent
        /\ dispatch[i].reason = "success"}

\* Verdicts of the similarity collaborator: confidence in tenths, -1 when
\* the JSON carries none. The lookup of the recent messages throws
\* ("findThrows"), the call throws, the text is no JSON ("unparsable"), the
\* JSON is no object ("notObject"), or it is an object ("json").
SimilarityThreshold == 7
Confidences == {-1, 6, 7, 10}
Verdicts ==
    {[kind |-> k, is_similar |-> FALSE, confidence |-> -1] :
        k \in {"findThrows", "throws", "unparsable", "notObject"}}
    \cup {[kind |-> "json", is_similar |-> b, confidence |-> c] :
            b \in BOOLEAN, c \in Confidences}

\* A verdict test that needs more than the threshold (a deliberately wrong
\* variant).
IsSimilarStrict(v) ==
    /\ v.kind = "json"
    /\ v.is_similar
    /\ v.confidence > SimilarityThreshold

\* parsed.is_similar === true && parsed.confidence >= 0.7
IsSimilarVerdict(v) ==
    /\ v.kind = "json"
    /\ v.is_similar
    /\ v.confidence >= SimilarityThreshold

\* isSimilarByGemini reaches generateContent: the model exists, the lookup
\* returned, and it returned at least one recent successful message.
Consulted(hasModel, recent, v) ==
    /\ hasModel
    /\ v.kind # "findThrows"
    /\ recent # {}

\* isSimilarByGemini: false without model, without recent messages and in
\* both catches; else the test of the parsed verdict.
IsSimilarByGemini(hasModel, recent, v) ==
    IF ~hasModel THEN FALSE
    ELSE IF v.kind = "findThrows" THEN FALSE
    ELSE IF recent = {} THEN FALSE
    ELSE IF v.kind \in {"throws", "unparsable", "notObject"} THEN FALSE
    ELSE IsSimilarVerdict(v)

Check(c, m) == [check |-> c, match |-> m]

\* The notifier returns to processAlert, which returns status "success".
Return(task, status, reason, sent) ==
    Succeeded(task, [status |-> status, reason |-> reason,
                     message_sent |-> sent])

\* The catch of sendNewsNotification: the error document is handed to
\* WatiDispatch.create.
Catch(task, message) ==
    [task EXCEPT !.pc = "n_logE", !.threw = "notification",
                 !.wati = [status |-> "error", reason |-> message,
                           message_sent |-> FALSE]]

(***************************************************************************)
(* WatiNotificationService.sendNewsNotification, await by await.           *)
(***************************************************************************)
\* User.findOne returns; the phone is normalized, the content hash is
\* computed and isDuplicate is called.
ResolvePhone(t) ==
    /\ pa[t].pc = "n_user"
    /\ LET task == pa[t]
       IN \/ pa' = [pa EXCEPT ![t] =
                  Catch([task EXCEPT !.lookup = "threw"], "user lookup failed")]
          \/ \E user \in UserDocs :
               LET whatsappNumber ==
                       IF user.found
                       THEN NormalizePhone(user.country_code, user.phone_number)
                       ELSE <<>>
                   a == task.article
               IN pa' = [pa EXCEPT ![t] =
                     IF whatsappNumber = <<>>
                     THEN Return([task EXCEPT !.lookup = "returned", !.user = user],
                                 "skipped", "phone_missing", FALSE)
                     ELSE [task EXCEPT
                             !.pc = "n_dup1",
                             !.lookup = "returned",
                             !.user = user,
                             !.whatsapp = whatsappNumber,
                             !.contentHash =
                                 ComputeContentHash(a.image_url, a.title,
                                     a.description, TEMPLATE_NAME, BROADCAST_NAME)]]
    /\ UNCHANGED <<env, call, schedVars, dbVars>>

\* Level 1: isDuplicate returns.
ExactCheck(t) ==
    /\ pa[t].pc = "n_dup1"
    /\ LET task == pa[t]
           duplicate == IsDuplicate(task.user_id, TEMPLATE_NAME, task.contentHash)
       IN \/ pa' = [pa EXCEPT ![t] = Catch(task, "dispatch lookup failed")]
          \/ pa' = [pa EXCEPT ![t] =
                [task EXCEPT !.pc = ShortCircuit(duplicate, "n_log1", "n_dup2"),
                             !.checks = Append(@, Check("exact", duplicate))]]
    /\ UNCHANGED <<env, call, schedVars, dbVars>>

\* The record of a rejected send is inserted, or the failure is logged and
\* swallowed; the skip is returned.
LogRejected(t, pc, reason) ==
    /\ pa[t].pc = pc
    /\ \E inserted \in BOOLEAN :
          /\ Create(RejectedDoc(pa[t], reason), inserted)
          /\ pa' = [pa EXCEPT ![t] =
                Return(Logged(pa[t], inserted), "skipped", reason, FALSE)]
    /\ UNCHANGED <<env, call, schedVars, alerts, intents>>

LogDuplicateMessage(t) == LogRejected(t, "n_log1", "duplicate_message")

\* Level 2: isDuplicateByArticle returns.
ArticleCheck(t) ==
    /\ pa[t].pc = "n_dup2"
    /\ LET task == pa[t]
           duplicateArticle ==
               IsDuplicateByArticle(task.user_id, TEMPLATE_NAME,
                                    task.article.article_hash)
       IN \/ /\ task.article.article_hash # NoHash
             /\ pa' = [pa EXCEPT ![t] = Catch(task, "dispatch lookup failed")]
          \/ pa' = [pa EXCEPT ![t] =
                [task EXCEPT !.pc = ShortCircuit(duplicateArticle, "n_log2", "n_sim"),
                             !.checks = Append(@, Check("article", duplicateArticle))]]
    /\ UNCHANGED <<env, call, schedVars, dbVars>>

LogDuplicateArticle(t) == LogRejected(t, "n_log2", "duplicate_article")

\* Level 3: isSimilarByGemini returns (it never throws); when it found no
\* similar message the payload is built and posted.
SimilarCheck(t) ==
    /\ pa[t].pc = "n_sim"
    /\ LET task == pa[t]
           recent == RecentSuccess(task.user_id, TEMPLATE_NAME)
       IN \E inWindow \in {{}, recent}, v \in Verdicts :
            LET hasModel == env.GEMINI_API_KEY
                isSimilar == IsSimilarByGemini(hasModel, inWindow, v)
                asked == IF Consulted(hasModel, inWindow, v)
                         THEN <<Check("gemini", isSimilar)>> ELSE <<>>
            IN pa' = [pa EXCEPT ![t] =
                  [task EXCEPT
                      !.pc = ShortCircuit(isSimilar, "n_log3", "n_post"),
                      !.checks = @ \o asked \o <<Check("similar", isSimilar)>>]]
    /\ UNCHANGED <<env, call, schedVars, dbVars>>

LogDuplicateSimilar(t) == LogRejected(t, "n_log3", "duplicate_similar")

\* axios.post returns or throws.
PostMessage(t) ==
    /\ pa[t].pc = "n_post"
    /\ LET task == pa[t]
       IN \E accepted \in BOOLEAN :
            /\ pa' = [pa EXCEPT ![t] =
                  IF accepted
                  THEN [task EXCEPT !.pc = "n_logS",
                                    !.checks = Append(@, Check("post", TRUE))]
                  ELSE [Catch(task, "Request failed") EXCEPT
                                    !.checks = Append(@, Check("post", FALSE))]]
    /\ UNCHANGED <<env, call, schedVars, dbVars>>

\* The success record is inserted and success is returned, or the insert
\* throws into the catch.
LogSuccess(t) ==
    /\ pa[t].pc = "n_logS"
    /\ LET task == pa[t]
       IN \E inserted \in BOOLEAN :
            /\ Create(SuccessDoc(task), inserted)
            /\ pa' = [pa EXCEPT ![t] =
                  IF inserted
                  THEN Return(Logged(task, inserted), "success", "success", TRUE)
                  ELSE Catch(task, "dispatch insert failed")]
    /\ UNCHANGED <<env, call, schedVars, alerts, intents>>

\* The catch: the error record is handed to the store, a failure of that
\* insert is swallowed, and status "error" is returned.
LogError(t) ==
    /\ pa[t].pc = "n_logE"
    /\ \E inserted \in BOOLEAN :
          /\ Create(ErrorDoc(pa[t]), inserted)
          /\ pa' = [pa EXCEPT ![t] =
                Return(Logged(pa[t], inserted), "error", pa[t].wati.reason, FALSE)]
    /\ UNCHANGED <<env, call, schedVars, alerts, intents>>

(***************************************************************************)
(* The specification.                                                      *)
(***************************************************************************)
\* No function has been applied on its own.
NoCall == [fn |-> "none"]

\* The Alert collection when the server starts.
Alert(id, u, active) == [alert_id |-> id, user_id |-> u, is_active |-> active]

InitialAlerts ==
    {<<>>, <<Alert(1, "u1", TRUE)>>,
     <<Alert(1, "u1", TRUE), Alert(2, "u2", TRUE)>>,
     <<Alert(1, "u1", TRUE), Alert(2, "u2", FALSE), Alert(3, "u1", TRUE)>>}

\* The AlertIntent collection at start: empty, or holding for alert 1 (when
\* there is such an alert) an intent stored without a perplexity_query.
InitialIntents ==
    {{}, {[alert_id |-> 1, user_id |-> "u1", perplexity_query |-> "",
           writes |-> 1]}}

Envs == [PERPLEXITY_API_KEY : BOOLEAN, GEMINI_API_KEY : BOOLEAN,
         WATI_ACCESS_TOKEN : BOOLEAN]

Init ==
    /\ env \in Envs
    /\ isRunning = FALSE
    /\ lastRun = 0
    /\ cronJob = FALSE
    /\ runs = 0
    /\ reply = "none"
    /\ pass = [s \in PassSlots |-> IdlePass]
    /\ pa = [t \in Tasks |-> IdleTask]
    /\ alerts \in InitialAlerts
    /\ intents \in {stored \in InitialIntents :
                       \A x \in stored : \E i \in DOMAIN alerts :
                           alerts[i].alert_id = x.alert_id}
    /\ dispatch = <<>>
    /\ call = NoCall

PassStep(s) ==
    \/ LoadAlerts(s)
    \/ AlertDone(s)
    \/ DelayDone(s)

AlertStep(t) ==
    \/ FindIntent(t)
    \/ ParseAndStoreAlert(t)
    \/ FetchNews(t)
    \/ FormatStep(t)

NotifyStep(t) ==
    \/ ResolvePhone(t)
    \/ ExactCheck(t)
    \/ LogDuplicateMessage(t)
    \/ ArticleCheck(t)
    \/ LogDuplicateArticle(t)
    \/ SimilarCheck(t)
    \/ LogDuplicateSimilar(t)
    \/ PostMessage(t)
    \/ LogSuccess(t)
    \/ LogError(t)

Next ==
    \/ Start
    \/ TimerTick
    \/ TriggerCronJob
    \/ \E s \in PassSlots : PassStep(s)
    \/ \E t \in Tasks : AlertStep(t)
    \/ \E t \in Tasks : NotifyStep(t)

Spec == Init /\ [][Next]_vars

\* The server starting with an empty Alert collection while clients create
\* alerts: the initial run and the immediate first-alert path.
InitEmpty ==
    /\ Init
    /\ alerts = <<>>

NextCreate ==
    \/ Start
    \/ \E u \in Users : CreateAlert(u)
    \/ \E t \in ImmSlots : ImmediateDone(t)
    \/ \E s \in PassSlots : PassStep(s)
    \/ \E t \in Tasks : AlertStep(t)
    \/ \E t \in Tasks : NotifyStep(t)

SpecCreate == InitEmpty /\ [][NextCreate]_vars

\* Functions applied on their own, each to every input of its domain.
pipelineVars == <<env, schedVars, pa, dbVars>>

InitCalc ==
    /\ Init
    /\ alerts = <<>>
    /\ intents = {}
    /\ env = [PERPLEXITY_API_KEY |-> TRUE, GEMINI_API_KEY |-> TRUE,
              WATI_ACCESS_TOKEN |-> TRUE]

ApplyIsSimilarByGemini ==
    /\ call = NoCall
    /\ \E hasModel \in BOOLEAN, recent \in {{}, {1}}, v \in Verdicts :
          call' = [fn |-> "isSimilarByGemini", hasModel |-> hasModel,
                   recent |-> recent, verdict |-> v,
                   out |-> IsSimilarByGemini(hasModel, recent, v)]
    /\ UNCHANGED pipelineVars

ApplyRateArticle ==
    /\ call = NoCall
    /\ \E emptyText \in BOOLEAN, hasIntent \in BOOLEAN, answer \in RatingAnswers,
          threshold \in Thresholds :
          call' = [fn |-> "rateArticle", emptyText |-> emptyText,
                   hasIntent |-> hasIntent, answer |-> answer,
                   threshold |-> threshold,
                   out |-> RateArticleBeforeFormatting(emptyText, hasIntent,
                                                       answer, threshold)]
    /\ UNCHANGED pipelineVars

ApplyRewriteOne ==
    /\ call = NoCall
    /\ \E articleText \in ArticleTexts, articleHash \in TextHashes,
          answer \in GenerationAnswers :
          call' = [fn |-> "rewriteOne", articleText |-> articleText,
                   articleHash |-> articleHash, answer |-> answer,
                   out |-> RewriteOne(articleText, articleHash, answer)]
    /\ UNCHANGED pipelineVars

ApplyGatekeep ==
    /\ call = NoCall
    /\ \E formattedArticles \in FormattedLists :
       \E answer \in GatekeepAnswers(formattedArticles) :
          call' = [fn |-> "gatekeep", formattedArticles |-> formattedArticles,
                   answer |-> answer,
                   out |-> GatekeepWith(formattedArticles, answer)]
    /\ UNCHANGED pipelineVars

ApplyParseIntent ==
    /\ call = NoCall
    /\ \E alertData \in AlertDatas, answer \in IntentAnswers :
          call' = [fn |-> "parseIntent", alertData |-> alertData,
                   answer |-> answer, out |-> ParseIntent(alertData, answer)]
    /\ UNCHANGED pipelineVars

ApplyRatingGate ==
    /\ call = NoCall
    /\ \E userIntent \in UserIntents, answer \in RatingAnswers :
          call' = [fn |-> "ratingGate", userIntent |-> userIntent,
                   answer |-> answer, threshold |-> minRatingThreshold,
                   out |-> RatingGate(TRUE, userIntent, answer,
                                      minRatingThreshold)]
    /\ UNCHANGED pipelineVars

ApplyArchive ==
    /\ call = NoCall
    /\ \E archive \in Archives, articles \in ArchiveLists,
          userIntent \in UserIntents :
       \E failing \in SUBSET (DOMAIN articles) :
          call' = [fn |-> "archive", archive |-> archive,
                   articles |-> articles, userIntent |-> userIntent,
                   failing |-> failing,
                   out |-> ArchiveAndReturn(archive, articles, userIntent,
                                            failing)]
    /\ UNCHANGED pipelineVars

NextCalc ==
    \/ ApplyIsSimilarByGemini
    \/ ApplyRateArticle
    \/ ApplyRewriteOne
    \/ ApplyGatekeep
    \/ ApplyParseIntent
    \/ ApplyRatingGate
    \/ ApplyArchive

SpecCalc == InitCalc /\ [][NextCalc]_vars

\* Every awaited call returns or times out: an activation that can take its
\* next step eventually takes it.
Progress ==
    \/ \E s \in PassSlots : PassStep(s)
    \/ \E t \in Tasks : AlertStep(t)
    \/ \E t \in Tasks : NotifyStep(t)

FairSpec == Spec /\ WF_vars(Progress)

(***************************************************************************)
(* Properties of the scheduler.                                            *)
(***************************************************************************)
ActivePasses == {s \in PassSlots : pass[s].pc # "idle"}

InProgress(t) == pa[t].pc \notin {"idle", "done"}

\* C1: processAllAlerts called while isRunning is true returns at once: it
\* starts no pass and leaves isRunning, lastRun, every activation and the
\* collections as they are; so at most one pass is in progress at any time,
\* and isRunning is true while it is.
C1_ReentrancyGuard ==
    /\ [](Cardinality(ActivePasses) <= 1 /\ (ActivePasses # {} => isRunning))
    /\ [][isRunning => runs' = runs]_vars
    /\ [][(reply # "skipped" /\ reply' = "skipped") =>
            (isRunning /\ UNCHANGED <<isRunning, lastRun, runs, pass, pa, dbVars>>)]_vars

\* A call was skipped while a pass was processing an alert.
C1_Witness ==
    /\ reply = "skipped"
    /\ isRunning
    /\ \E s \in PassSlots : pass[s].pc = "alert" /\ InProgress(s)

AllAccounted(s) ==
    Len(pass[s].details) + Len(pass[s].queue)
        + (IF pass[s].pc = "alert" THEN 1 ELSE 0) = pass[s].loaded

C3_OneAtATime ==
    Cardinality({t \in Tasks : InProgress(t)}) <= 1

\* C4: every pass that set isRunning ends: isRunning is false again and
\* lastRun is the end of that pass.
C4_RunEnds ==
    \A n \in 1..MaxWork : (runs = n /\ isRunning) ~> (lastRun = n /\ ~isRunning)

\* A pass has ended and the scheduler is idle again.
C4_Witness ==
    /\ runs = 1
    /\ lastRun = 1
    /\ ~isRunning

(***************************************************************************)
(* Properties of the notifier and the dispatch log.                        *)
(***************************************************************************)
Done(t) == pa[t].pc = "done"

DuplicateReasons == {"duplicate_message", "duplicate_article", "duplicate_similar"}

\* The records of the log with the user, template and content hash of `r`.
SameKey(r) ==
    {i \in 1..Len(dispatch) :
        /\ dispatch[i].user_id = r.user_id
        /\ dispatch[i].template_name = r.template_name
        /\ dispatch[i].content_hash = r.content_hash}

\* C5: for a user and template the dispatch log holds at most one record
\* per content_hash.
C5_OneRecordPerContentHash ==
    \A i \in 1..Len(dispatch) : Cardinality(SameKey(dispatch[i])) <= 1

\* The successful records of the content `t` is about to send, for its user.
SentBefore(t) ==
    {i \in 1..Len(dispatch) :
        /\ dispatch[i].user_id = pa[t].user_id
        /\ dispatch[i].template_name = TEMPLATE_NAME
        /\ dispatch[i].content_hash = pa[t].contentHash
        /\ dispatch[i].message_sent}

HasCheck(t, c) == \E i \in 1..Len(pa[t].checks) : pa[t].checks[i].check = c

\* C6: once a message was sent to a user, processing the same content for
\* that user again stops at the exact check: the activation goes past that
\* check only when no successful record of the content exists, a
\* duplicate_message skip never reaches the messaging call, and the log
\* never holds two successful records of one content for one user.
C6_SecondIsDuplicate ==
    /\ \A t \in Tasks :
          pa[t].pc \in {"n_dup2", "n_log2", "n_sim", "n_log3", "n_post", "n_logS"}
              => SentBefore(t) = {}
    /\ \A t \in Tasks :
          (Done(t) /\ pa[t].wati.reason = "duplicate_message") =>
              /\ pa[t].wati.status = "skipped"
              /\ ~pa[t].wati.message_sent
              /\ pa[t].checks = <<Check("exact", TRUE)>>
    /\ \A i \in 1..Len(dispatch) :
          dispatch[i].message_sent =>
              Cardinality({j \in SameKey(dispatch[i]) : dispatch[j].message_sent}) = 1

\* The second processing of an alert whose message was sent returned the
\* duplicate_message skip.
C6_Witness ==
    \E t \in Tasks :
        /\ Done(t)
        /\ pa[t].wati.reason = "duplicate_message"
        /\ \E i \in SentBefore(t) : dispatch[i].alert_id = pa[t].alert_id

\* The records of the log of the user of `t`.
RecordsOfUser(t) == {i \in 1..Len(dispatch) : dispatch[i].user_id = pa[t].user_id}

\* The activation `t` ran with every call answering, for a user without
\* earlier records, one article retrieved and curated into an item with title
\* and description, with the configuration and the phone number available.
HappyPath(t) ==
    /\ Done(t)
    /\ pa[t].threw = ""
    /\ pa[t].fetched = 1
    /\ pa[t].article.title # ""
    /\ pa[t].article.description # ""
    /\ pa[t].wati.reason \notin {"missing_config", "phone_missing"}
    /\ Cardinality(RecordsOfUser(t)) = pa[t].created

\* C7: with no earlier record, one article that passes curation, the phone
\* and the configuration available and every call succeeding, processAlert
\* creates exactly one record, with message_sent true and reason "success".
C7_OneSuccessRecord ==
    \A t \in Tasks :
        HappyPath(t) =>
            /\ pa[t].created = 1
            /\ pa[t].result.status = "success"
            /\ pa[t].wati = [status |-> "success", reason |-> "success",
                             message_sent |-> TRUE]
            /\ \A i \in RecordsOfUser(t) :
                  /\ dispatch[i].message_sent
                  /\ dispatch[i].reason = "success"
                  /\ dispatch[i].alert_id = pa[t].alert_id
                  /\ dispatch[i].title = pa[t].article.title

\* An activation ran the whole path for a user without earlier records.
C7_Witness == \E t \in Tasks : HappyPath(t)

\* C8: when retrieval returns no article, processAlert returns status
\* "skipped", reason "no_articles_found"; the curator and the notifier are
\* not called for the alert and it creates no record.
C8_NoArticlesSkip ==
    \A t \in Tasks :
        /\ pa[t].fetched = 0 =>
              /\ Done(t)
              /\ pa[t].result.status = "skipped"
              /\ pa[t].result.reason = "no_articles_found"
              /\ pa[t].article = NoArticle
              /\ pa[t].checks = <<>>
              /\ pa[t].wati = NoWati
              /\ pa[t].created = 0
        /\ pa[t].pc \in {"format", "n_user"} => pa[t].fetched >= 1

\* An activation ended after retrieval returned no article.
C8_Witness == \E t \in Tasks : Done(t) /\ pa[t].fetched = 0

\* The checks of `t` before the i-th found no match, in the order given.
Before(t, i, names) ==
    /\ i = Len(names) + 1
    /\ \A k \in 1..Len(names) : pa[t].checks[k] = Check(names[k], FALSE)

\* C9: the duplicate checks run in the order exact, article, similarity and
\* stop at the first match: the article check runs only after an exact check
\* without match, the similarity collaborator is consulted only after both
\* hash checks without match, and the message is posted only after all three
\* found no match.
C9_ChecksInOrder ==
    \A t \in Tasks :
        \A i \in 1..Len(pa[t].checks) :
            LET c == pa[t].checks[i].check
            IN /\ c = "exact" => i = 1
               /\ c = "article" => Before(t, i, <<"exact">>)
               /\ c = "gemini" => Before(t, i, <<"exact", "article">>)
               /\ c = "similar" =>
                     \/ Before(t, i, <<"exact", "article">>)
                     \/ /\ i = 4
                        /\ pa[t].checks[3] = Check("gemini", pa[t].checks[4].match)
                        /\ Before(t, 3, <<"exact", "article">>)
               /\ c = "post" =>
                     \/ Before(t, i, <<"exact", "article", "similar">>)
                     \/ Before(t, i, <<"exact", "article", "gemini", "similar">>)

\* A message was posted after the similarity collaborator found no match.
C9_Witness ==
    \E t \in Tasks :
        /\ HasCheck(t, "gemini")
        /\ pa[t].checks[Len(pa[t].checks)] = Check("post", TRUE)

\* The record the rejected send of `t` is to leave, at the end of the log.
RejectionLogged(t) ==
    /\ pa[t].created = 1
    /\ dispatch # <<>>
    /\ LET r == dispatch[Len(dispatch)]
       IN /\ r.user_id = pa[t].user_id
          /\ r.alert_id = pa[t].alert_id
          /\ r.content_hash = pa[t].contentHash
          /\ ~r.message_sent
          /\ r.reason = pa[t].wati.reason

Rejected(t) == Done(t) /\ pa[t].wati.reason \in DuplicateReasons

C11_SimilarityFailsOpen ==
    call.fn = "isSimilarByGemini" =>
        (call.out <=>
            /\ call.hasModel
            /\ call.recent # {}
            /\ call.verdict.kind = "json"
            /\ call.verdict.is_similar
            /\ call.verdict.confidence >= 7)

\* The check rejected on a verdict of exactly the threshold.
C11_Witness ==
    /\ call.fn = "isSimilarByGemini"
    /\ call.out
    /\ call.verdict.confidence = 7

\* The rating collaborator was asked about a non-empty article.
Rated == call.fn = "rateArticle" /\ ~call.emptyText /\ call.hasIntent

\* C12: for every threshold and every numeric rating the collaborator
\* returns, the article proceeds exactly when the rating is at least the
\* threshold.
C12_ThresholdInclusive ==
    (Rated /\ call.answer.kind = "json" /\ call.answer.numeric) =>
        /\ call.out.rating = call.answer.rating
        /\ call.out.shouldProceed <=> (call.answer.rating >= call.threshold)

\* A rating of exactly the threshold let the article proceed.
C12_Witness ==
    /\ Rated
    /\ call.answer.numeric
    /\ call.answer.rating = call.threshold
    /\ call.out.shouldProceed

\* C13: whenever no rating can be obtained or parsed for a non-empty
\* article (the call throws, the text is empty or no JSON, or the JSON has
\* no numeric rating) the article is treated as passing.
C13_RatingFailsOpen ==
    (Rated /\ ~(call.answer.kind = "json" /\ call.answer.numeric)) =>
        call.out.shouldProceed

\* The generation call failed, or its answer gave no title or no description.
GenerationFailed ==
    /\ call.fn = "rewriteOne"
    /\ \/ call.answer.kind # "text"
       \/ Trim(call.answer.title) = <<>>
       \/ Trim(call.answer.description) = <<>>

\* C14: when the generation collaborator throws, is blocked, or returns empty
\* or unparsable text, the rewrite of an article still yields one item with a
\* non-empty title and a non-empty description, both those of the
\* deterministic fallback, and the item carries the article_hash of the
\* source article whenever the source supplied one.
C14_FallbackGuarantee ==
    GenerationFailed =>
        /\ Len(call.out) = 1
        /\ call.out[1].title # <<>>
        /\ call.out[1].description # <<>>
        /\ call.out[1].title = Fallback(call.articleText).title
        /\ call.out[1].description = Fallback(call.articleText).description
        /\ call.articleHash # NoHash => call.out[1].article_hash = call.articleHash

\* The collaborator threw on an article that has no sentence at all and a
\* hash: the item has the fixed title and description and the hash.
C14_Witness ==
    /\ GenerationFailed
    /\ call.answer.kind = "throws"
    /\ call.articleText = <<".">>
    /\ call.articleHash \in Hashes
    /\ Len(call.out) = 1
    /\ call.out[1].title = NewsUpdate
    /\ call.out[1].article_hash = call.articleHash

\* C15: given a non-empty list of curated items, the gatekeeping stage
\* returns an empty list only when the collaborator answered with an empty
\* selection; on a thrown call, an empty response or any malformed response,
\* well-formed JSON that is not an array of items included, it passes every
\* input item through with the default reason.
C15_GatekeepFailsOpen ==
    call.fn = "gatekeep" =>
        /\ call.out = <<>> =>
               (call.answer.kind = "array" /\ call.answer.items = <<>>)
        /\ call.answer.kind # "array" =>
               call.out = PassThrough(call.formattedArticles)

\* parseIntent returned what _normalizeIntent made of the parsed object.
Normalized ==
    /\ call.fn = "parseIntent"
    /\ call.answer.kind = "object"
    /\ ~NormalizeIntent(call.answer).threw

\* C16: after intent normalization the timeframe is one of the four enum
\* values; a timeframe outside the enum becomes "3days" when the intent does
\* not require live data, and whenever requires_live_data is true (or any
\* truthy value) the timeframe is "24hours".
C16_TimeframeNormalized ==
    Normalized =>
        LET out == call.out.intent
            live == out.requires_live_data \in {"true", "truthy"}
        IN  /\ out.timeframe \in valid
            /\ live => out.timeframe = "24hours"
            /\ ~live =>
                  out.timeframe = IF call.answer.timeframe \in valid
                                  THEN call.answer.timeframe ELSE "3days"

\* A bogus timeframe without live data came out as "3days".
C16_Witness ==
    /\ Normalized
    /\ call.answer.timeframe = "bogus"
    /\ call.answer.requires_live_data = "false"
    /\ call.out.intent.timeframe = "3days"

\* C17: parseIntent never raises to its caller: whatever the collaborator
\* does (throws, empty text, text that is not JSON, JSON of an unexpected
\* shape) it returns an intent, and on each failure the intent is that of
\* the deterministic fallback.
C17_ParseIntentNeverRaises ==
    call.fn = "parseIntent" =>
        /\ ~call.out.threw
        /\ call.out.intent.timeframe \in valid
        /\ (call.answer.kind # "object" \/ NormalizeIntent(call.answer).threw) =>
               call.out.intent = FallbackParse(call.alertData)

\* The answer was an object whose custom_question is a number: the
\* normalization threw and parseIntent returned the fallback intent.
C17_Witness ==
    /\ call.fn = "parseIntent"
    /\ call.answer.kind = "object"
    /\ call.answer.custom_question = WrongType
    /\ NormalizeIntent(call.answer).threw
    /\ ~call.out.threw
    /\ call.out.intent = FallbackParse(call.alertData)

\* The activation called sendNewsNotification and the call is over.
Notified(t) ==
    Done(t) /\ \E i \in DOMAIN pa[t].stages : pa[t].stages[i] = "notification"

\* The user lookup returned no user, or one whose country code or phone
\* number has no digit.
PhoneUnresolved(t) ==
    /\ pa[t].lookup = "returned"
    /\ \/ ~pa[t].user.found
       \/ Digits(pa[t].user.country_code) = <<>>
       \/ Digits(pa[t].user.phone_number) = <<>>

\* sendNewsNotification returned a skip with this reason to processAlert,
\* without an exception, a duplicate check, a call of the messaging
\* collaborator or a dispatch record.
SkippedFor(t, reason) ==
    /\ pa[t].threw = ""
    /\ pa[t].result.status = "success"
    /\ pa[t].result.wati = [status |-> "skipped", reason |-> reason,
                            message_sent |-> FALSE]
    /\ pa[t].checks = <<>>
    /\ pa[t].created = 0

\* C18: when the messaging configuration is missing, or the phone cannot be
\* resolved (processAlert passes no override; the user is not found, or the
\* country code or the number has no digit), sendNewsNotification raises no
\* exception, returns status "skipped" with reason "missing_config" or
\* "phone_missing" respectively, and never calls the messaging collaborator.
C18_ExplicitSkipReasons ==
    \A t \in Tasks :
        Notified(t) =>
            /\ ~env.WATI_ACCESS_TOKEN => SkippedFor(t, "missing_config")
            /\ (env.WATI_ACCESS_TOKEN /\ PhoneUnresolved(t)) =>
                   SkippedFor(t, "phone_missing")

\* A user was found whose number has no digit, and the call was skipped.
C18_Witness ==
    \E t \in Tasks :
        /\ Notified(t)
        /\ env.WATI_ACCESS_TOKEN
        /\ pa[t].user.found
        /\ Digits(pa[t].user.country_code) # <<>>
        /\ Digits(pa[t].user.phone_number) = <<>>
        /\ SkippedFor(t, "phone_missing")

StageOrder == <<"intent", "retrieval", "curation", "notification">>

Called(t, stage) == \E i \in DOMAIN pa[t].stages : pa[t].stages[i] = stage

SkippedWith(t, reason) ==
    Done(t) => (pa[t].result.status = "skipped" /\ pa[t].result.reason = reason)

\* C19: processAlert calls its stages in the order intent, retrieval,
\* curation, notification, and each data-availability gate stops it before
\* the next stage: the retriever is never called when the intent has no
\* search query (skip "missing_perplexity_query"), the curator is never
\* called when retrieval returned no article (skip "no_articles_found"), and
\* the notifier is never called when curation returned no item (skip
\* "no_formatted_articles").
C19_StagesInOrder ==
    \A t \in Tasks :
        /\ pa[t].stages = Take(StageOrder, Len(pa[t].stages))
        /\ Called(t, "retrieval") => pa[t].query \notin {NoQuery, ""}
        /\ Called(t, "curation") => pa[t].fetched > 0
        /\ Called(t, "notification") => pa[t].curated > 0
        /\ pa[t].query = "" =>
              ~Called(t, "retrieval") /\ SkippedWith(t, "missing_perplexity_query")
        /\ pa[t].fetched = 0 =>
              ~Called(t, "curation") /\ SkippedWith(t, "no_articles_found")
        /\ pa[t].curated = 0 =>
              ~Called(t, "notification") /\ SkippedWith(t, "no_formatted_articles")

\* An activation found an intent without a query and stopped after the
\* intent stage.
C19_Witness ==
    \E t \in Tasks :
        /\ Done(t)
        /\ pa[t].query = ""
        /\ pa[t].stages = <<"intent">>
        /\ pa[t].result.status = "skipped"
        /\ pa[t].result.reason = "missing_perplexity_query"

Attempts(t) ==
    Cardinality({i \in DOMAIN pa[t].stages : pa[t].stages[i] = "notification"})

Posts(t) ==
    Cardinality({i \in DOMAIN pa[t].checks : pa[t].checks[i].check = "post"})

\* C20: an activation of processAlert (one alert in one run) makes at most
\* one notification attempt, and it is for the first curated item: the
\* article handed to the notifier, the content hash that is checked and
\* logged, and the only message posted are those of the first item, also
\* when that item is rejected as a duplicate or fails to send.
C20_FirstItemOnly ==
    \A t \in Tasks :
        /\ Attempts(t) <= 1
        /\ Posts(t) <= 1
        /\ Attempts(t) = 1 =>
              /\ pa[t].items # <<>>
              /\ pa[t].article = pa[t].items[1]
              /\ pa[t].contentHash \in
                    {"", ComputeContentHash(pa[t].items[1].image_url,
                                            pa[t].items[1].title,
                                            pa[t].items[1].description,
                                            TEMPLATE_NAME, BROADCAST_NAME)}
        /\ Attempts(t) = 0 => Posts(t) = 0 /\ pa[t].article = NoArticle

\* Two different items were curated, the first was rejected as a duplicate,
\* and the activation ended without an attempt for the second.
C20_Witness ==
    \E t \in Tasks :
        /\ Done(t)
        /\ Len(pa[t].items) = 2
        /\ pa[t].items[1] # pa[t].items[2]
        /\ pa[t].article = pa[t].items[1]
        /\ pa[t].result.wati.reason \in DuplicateReasons
        /\ Attempts(t) = 1
        /\ Posts(t) = 0

\* C21: processAlert derives and stores an AlertIntent only when none exists
\* for the alert's (alert_id, user_id); an AlertIntent that is stored is
\* never written again, by any later step of any activation.
C21_IntentStoredOnce == [][\A x \in intents : x \in intents']_vars

\* C22: in the pipeline driven by processAlert every article the curator
\* rewrites was rated first, and an article the rating collaborator rates
\* below minRatingThreshold is not rewritten.
C22_RatedBeforeRewrite ==
    (call.fn = "ratingGate" /\ call.userIntent.caller = "processAlert") =>
        /\ call.out.rewritten => call.out.rated
        /\ (/\ call.answer.kind = "json"
            /\ call.answer.numeric
            /\ call.answer.rating < call.threshold) => ~call.out.rewritten

\* C23: after processAlert has curated the items of an alert, every
\* surviving item that carries a content hash (and whose upsert did not
\* fail) is in the Article archive under the key (alert_id, content hash),
\* and a failure of that persistence never makes the curation fail.
C23_SurvivorsArchived ==
    (call.fn = "archive" /\ call.userIntent.caller = "processAlert") =>
        /\ ~call.out.threw
        /\ call.out.returned = call.articles
        /\ \A i \in DOMAIN call.articles :
              (/\ call.articles[i].article_hash # NoHash
               /\ call.articles[i].original_content
               /\ i \notin call.failing) =>
                  <<ArchiveAlert, call.articles[i].article_hash>> \in call.out.archive

\* The dispatch log holds an error record of this activation's attempt.
ErrorLogged(t) ==
    \E i \in DOMAIN dispatch :
        /\ dispatch[i].user_id = pa[t].user_id
        /\ dispatch[i].alert_id = pa[t].alert_id
        /\ dispatch[i].reason = "error"
        /\ ~dispatch[i].message_sent

\* C24: when the messaging call, or any step of sendNewsNotification after
\* the configuration and phone checks, fails, the notifier returns status
\* "error" instead of raising, and a DispatchRecord with message_sent false
\* and reason "error" has been persisted for the attempt.
C24_ErrorRecorded ==
    \A t \in Tasks :
        (Done(t) /\ pa[t].threw = "notification") =>
            /\ pa[t].result.status = "success"
            /\ pa[t].result.wati.status = "error"
            /\ ~pa[t].result.wati.message_sent
            /\ ErrorLogged(t)

\* The pass has processed its last alert and is about to return its results.
Completed(s) == pass[s].pc = "delay" /\ pass[s].queue = <<>>

CountStatus(s, statuses) ==
    Cardinality({i \in DOMAIN pass[s].details :
                    pass[s].details[i].status \in statuses})

\* Lists of active alerts in which grouping by user changes the order.
GroupingLists ==
    {<<Alert(1, u, TRUE), Alert(2, v, TRUE), Alert(3, w, TRUE)>> :
        u \in Users, v \in Users, w \in Users}

\* C25: when a run of processAllAlerts completes, its detail list has exactly
\* one entry for each active alert loaded at the start of the run, and
\* processed + skipped + errors is the number of those alerts, each entry
\* counted once according to its status; grouping by user neither drops nor
\* repeats an alert.
C25_OneEntryPerAlert ==
    /\ \A s \in PassSlots :
          Completed(s) =>
              /\ Len(pass[s].details) = Len(ActiveAlerts)
              /\ \A i \in DOMAIN ActiveAlerts :
                    Cardinality({j \in DOMAIN pass[s].details :
                        pass[s].details[j].alert_id = ActiveAlerts[i].alert_id}) = 1
              /\ pass[s].processed = CountStatus(s, {"success"})
              /\ pass[s].skipped = CountStatus(s, {"skipped"})
              /\ pass[s].errors = CountStatus(s, {"error"})
              /\ pass[s].processed + pass[s].skipped + pass[s].errors
                    = Len(ActiveAlerts)
    /\ \A list \in GroupingLists :
          LET grouped == GroupByUser(list)
          IN /\ Len(grouped) = Len(list)
             /\ \A i \in DOMAIN list : \E j \in DOMAIN grouped : grouped[j] = list[i]

\* A run over two active alerts of one user, with an inactive alert of
\* another user between them, has completed with one entry for each.
C25_Witness ==
    \E s \in PassSlots :
        /\ Completed(s)
        /\ Len(alerts) = 3
        /\ Len(pass[s].details) = 2
        /\ pass[s].details[1].alert_id = 1
        /\ pass[s].details[2].alert_id = 3

\* parseIntent fell back to the deterministic rule.
FellBack ==
    /\ call.fn = "parseIntent"
    /\ call.answer.kind \in {"throws", "empty", "unparsable"}

\* An urgency keyword appears in the custom question or in a follow-up.
UrgentAnywhere(alertData) ==
    \/ DetectUrgency(alertData.custom_question.text)
    \/ \E i \in DOMAIN alertData.followup_questions.list :
          DetectUrgency(alertData.followup_questions.list[i])

\* C26: in the deterministic intent fallback the timeframe is "24hours" and
\* requires_live_data is true whenever an urgency keyword appears in the
\* custom question or in any follow-up text, and the timeframe is "3days"
\* otherwise, for every combination of custom question and follow-ups.
C26_FallbackUrgency ==
    FellBack =>
        /\ call.out.intent.requires_live_data = Flag(UrgentAnywhere(call.alertData))
        /\ call.out.intent.timeframe =
              IF UrgentAnywhere(call.alertData) THEN "24hours" ELSE "3days"

\* C27: the list the curator returns is a filtered sub-list of the items it
\* rewrote: every returned item has the title and the description of one of
\* them, and the list has at most maxArticles items, whatever the
\* gatekeeping collaborator answers.
C27_SublistOfRewritten ==
    call.fn = "gatekeep" =>
        /\ Len(call.out) <= maxArticles
        /\ \A i \in DOMAIN call.out :
              \E j \in DOMAIN call.formattedArticles :
                  /\ call.out[i].title = call.formattedArticles[j].title
                  /\ call.out[i].description = call.formattedArticles[j].description

\* The messaging collaborator accepted the message of activation t.
Accepted(t) ==
    \E i \in DOMAIN pa[t].checks :
        pa[t].checks[i] = Check("post", TRUE)

\* C28: for a given user and template the same formatted message (same
\* content_hash) is handed to the messaging collaborator at most once, under
\* every interleaving of sendNewsNotification activations, the immediate
\* first-alert path running beside a scheduled run included: no two
\* activations both send it.
C28_SentAtMostOnce ==
    \A t \in Tasks : \A u \in Tasks \ {t} :
        ~ /\ Accepted(t)
          /\ Accepted(u)
          /\ pa[t].user_id = pa[u].user_id
          /\ pa[t].contentHash = pa[u].contentHash

\* The dispatch log holds a record of a sent message with the user and the
\* content hash of activation t.
SentRecorded(t) ==
    \E i \in DOMAIN dispatch :
        /\ dispatch[i].user_id = pa[t].user_id
        /\ dispatch[i].template_name = TEMPLATE_NAME
        /\ dispatch[i].content_hash = pa[t].contentHash
        /\ dispatch[i].message_sent

\* C29: whenever the messaging collaborator accepted a message in
\* sendNewsNotification, after the call returns the log holds a record with
\* message_sent true and that message's content_hash, also when persisting
\* the record failed after the send.
C29_AcceptedIsRecorded ==
    \A t \in Tasks :
        (Done(t) /\ Accepted(t)) => SentRecorded(t)

\* The content hash of the candidate that activation t handed to the notifier.
CandidateHash(t) ==
    ComputeContentHash(pa[t].article.image_url, pa[t].article.title,
        pa[t].article.description, TEMPLATE_NAME, BROADCAST_NAME)

\* Both duplicate look-ups answer "no" for the candidate of activation t.
PassesLookups(t) ==
    /\ ~IsDuplicate(pa[t].user_id, TEMPLATE_NAME, CandidateHash(t))
    /\ ~IsDuplicateByArticle(pa[t].user_id, TEMPLATE_NAME,
                             pa[t].article.article_hash)

\* C30: a failed send does not poison de-duplication: the step in which
\* sendNewsNotification ends with status "error" leaves the answers of
\* isDuplicate and isDuplicateByArticle for the same user, title,
\* description, image and source article as they were, so a later candidate
\* with that content is not rejected because of the failed attempt.
C30_FailedSendNotPoisoning ==
    [][\A t \in Tasks :
          (pa[t].pc = "n_logE" /\ pa'[t].pc = "done") =>
              /\ pa'[t].result.wati.status = "error"
              /\ IsDuplicate(pa[t].user_id, TEMPLATE_NAME, CandidateHash(t))'
                    = IsDuplicate(pa[t].user_id, TEMPLATE_NAME, CandidateHash(t))
              /\ IsDuplicateByArticle(pa[t].user_id, TEMPLATE_NAME,
                                      pa[t].article.article_hash)'
                    = IsDuplicateByArticle(pa[t].user_id, TEMPLATE_NAME,
                                           pa[t].article.article_hash)]_vars

\* A send failed at the messaging call and has ended with status "error",
\* and both look-ups still answer "no" for its content.
C30_Witness ==
    \E t \in Tasks :
        /\ Done(t)
        /\ pa[t].result.wati.status = "error"
        /\ \E i \in DOMAIN pa[t].checks : pa[t].checks[i] = Check("post", FALSE)
        /\ pa[t].article.article_hash # NoHash
        /\ PassesLookups(t)

====================================================================
